---------------------------- MODULE Spec2Model ----------------------------
(***************************************************************************)
(* Model of the task handlers of go-todo-api                               *)
(* (internal/handlers: GetAllTasks, GetTaskByID, CreateTask, UpdateTask,   *)
(* DeleteTask) over a MongoDB collection of task documents.                *)
(*                                                                         *)
(* The collection is a sequence of documents in insertion order.  Every    *)
(* store call of a handler either completes or fails (connection lost,    *)
(* timeout): which one is an input of the action.  UpdateTask issues three *)
(* store calls (FindOne, UpdateOne, FindOne); each is a step operator, and *)
(* the action UpdateTask runs the three in sequence.                       *)
(***************************************************************************)
EXTENDS Integers, Sequences, FiniteSets, TLC

(***************************************************************************)
(* Bounds and input domains                                                *)
(***************************************************************************)
\* number of ObjectIDs the driver generates in the model, so also the
\* largest number of documents the collection holds
NumOids == 2

\* length of the external (hex) form of an ObjectID
HexLen == 24

\* titles and descriptions callers send
Titles == {"A", "B"}
Descriptions == {"", "D"}

\* values of the ?completed= query parameter
CompletedParams == {"", "true", "false", "yes"}

(***************************************************************************)
(* ObjectIDs and their hex form                                            *)
(***************************************************************************)
HexDigits == <<"0", "1", "2", "3", "4", "5", "6", "7", "8", "9",
               "a", "b", "c", "d", "e", "f">>
UpperDigits == <<"0", "1", "2", "3", "4", "5", "6", "7", "8", "9",
                 "A", "B", "C", "D", "E", "F">>

IsHexChar(c) == \E i \in 1..16 : HexDigits[i] = c \/ UpperDigits[i] = c

HexVal(c) == (CHOOSE i \in 1..16 : HexDigits[i] = c \/ UpperDigits[i] = c) - 1

\* the zero ObjectID (primitive.NilObjectID), the value of an unset Task.ID
NilObjectID == [i \in 1..(HexLen \div 2) |-> 0]

\* the decoding primitive.ObjectIDFromHex does: 24 hex characters, either
\* case, to 12 bytes
DecodeHex(s) ==
    IF Len(s) # HexLen \/ \E i \in 1..Len(s) : ~IsHexChar(s[i])
    THEN [err |-> TRUE, oid |-> NilObjectID]
    ELSE [err |-> FALSE,
          oid |-> [i \in 1..(HexLen \div 2) |->
                      16 * HexVal(s[2 * i - 1]) + HexVal(s[2 * i])]]

\* ObjectID.Hex: 12 bytes to 24 lower-case hex characters
Hex(oid) ==
    [i \in 1..HexLen |->
        IF i % 2 = 1 THEN HexDigits[(oid[(i + 1) \div 2] \div 16) + 1]
                     ELSE HexDigits[(oid[i \div 2] % 16) + 1]]

\* an ObjectID whose last byte is b
MkOid(b) == [i \in 1..(HexLen \div 2) |-> IF i = HexLen \div 2 THEN b ELSE 0]

\* the ObjectIDs the driver generates in the model: last bytes 0xab, 0xac, ...
OidPool == {MkOid(170 + k) : k \in 1..NumOids}
LastOid == MkOid(170 + NumOids)

\* an id string with its hex digits in upper case
ToUpper(s) ==
    [i \in 1..Len(s) |->
        UpperDigits[CHOOSE k \in 1..16 : HexDigits[k] = s[i]]]

\* the id of the last ObjectID of the pool written with upper-case digits
UpperID == ToUpper(Hex(LastOid))
\* one character short
ShortID == [i \in 1..(HexLen - 1) |-> "0"]
\* right length, one character that is no hex digit
NonHexID == [i \in 1..HexLen |-> IF i = HexLen THEN "g" ELSE "0"]

\* the id strings callers send
ExternalIDs == {Hex(MkOid(171)), UpperID, ShortID, NonHexID}

\* primitive.ObjectIDFromHex on the id strings of the model, decoded once
IDStrings == ExternalIDs \cup {Hex(o) : o \in OidPool}
ParsedIDs == [s \in IDStrings |-> DecodeHex(s)]
ObjectIDFromHex(s) == ParsedIDs[s]

(***************************************************************************)
(* Documents, Tasks and the store's operations                             *)
(***************************************************************************)
\* the zero value of models.Task
ZeroTask == [ID |-> NilObjectID, Title |-> "", Description |-> "",
             Completed |-> FALSE]

\* bson marshalling of a models.Task whose ID is set
Marshal(t) == [_id |-> t.ID, title |-> t.Title,
               description |-> t.Description, completed |-> t.Completed]

\* bson decoding of a document into a models.Task
Decode(d) == [ID |-> d._id, Title |-> d.title,
              Description |-> d.description, Completed |-> d.completed]

StoreIds(st) == {st[i]._id : i \in 1..Len(st)}

\* a bson.M filter matches a document when every key of it is equal
Matches(d, filter) == \A k \in DOMAIN filter : d[k] = filter[k]

\* collection.Find: the matching documents, in the collection's order
Find(st, filter) == SelectSeq(st, LAMBDA d : Matches(d, filter))

\* (mutant) a replacement: the fields the set does not list are reset
ApplySetReplace(d, set) ==
    [k \in DOMAIN d \cup DOMAIN set |->
        IF k \in DOMAIN set THEN set[k]
        ELSE IF k = "_id" THEN d._id
        ELSE IF k = "completed" THEN FALSE
        ELSE ""]
\* $set: the listed fields take the given values, the others stay
ApplySet(d, set) ==
    [k \in DOMAIN d \cup DOMAIN set |-> IF k \in DOMAIN set THEN set[k] ELSE d[k]]

\* (mutant) UpdateOne with upsert: a miss inserts a document built from the set
UpdateOneUpsert(st, oid, set) ==
    IF \E i \in 1..Len(st) : st[i]._id = oid
    THEN [i \in 1..Len(st) |->
             IF st[i]._id = oid THEN ApplySet(st[i], set) ELSE st[i]]
    ELSE Append(st, ApplySet([_id |-> oid, title |-> "", description |-> "",
                              completed |-> FALSE], set))
\* collection.UpdateOne(filter {_id: oid}, {$set: set}): no upsert
UpdateOne(st, oid, set) ==
    [i \in 1..Len(st) |-> IF st[i]._id = oid THEN ApplySet(st[i], set) ELSE st[i]]

\* (mutant) the matched count is not that of the filter: always one
MatchedCountOne(st, oid) == 1
MatchedCount(st, oid) == IF oid \in StoreIds(st) THEN 1 ELSE 0

\* collection.DeleteOne(filter {_id: oid})
DeleteOne(st, oid) == SelectSeq(st, LAMBDA d : d._id # oid)

\* a Go slice of Tasks: nil, or a (possibly empty) sequence
NilSlice == [nil |-> TRUE, elems |-> <<>>]

\* cursor.All into a nil slice: the slice stays nil when there is no document
CursorAll(docs) ==
    IF Len(docs) = 0 THEN NilSlice
    ELSE [nil |-> FALSE, elems |-> [i \in 1..Len(docs) |-> Decode(docs[i])]]

\* the errors the handlers return (huma.Error400BadRequest, ...)
Error400BadRequest == "400 Bad Request"
Error404NotFound == "404 Not Found"
Error500InternalServerError == "500 Internal Server Error"

(***************************************************************************)
(* State                                                                   *)
(***************************************************************************)
VARIABLES
    store,      \* the tasks collection: documents in insertion order
    resp,       \* the response of the last handler invocation, with its input
    before,     \* the collection as it was when that invocation started
    req,        \* the last HTTP request: entry point, API key, rate limiting
    elapsed,    \* the durations of the store calls the last invocation issued
    inflight,   \* the UpdateTask invocations running concurrently, by slot
    proc,       \* the server process: entry point, position, tracer provider
    exchange,   \* the last request sent through a middleware chain, answered
    limiter,    \* the rate limiter: visitors table, limiters, cleanup sleep
    now,        \* the clock, in token intervals of 1/rate seconds
    conns,      \* the requests running concurrently inside RateLimit
    hist        \* history: admissions since time last advanced, last sweep

vars == <<store, resp, before, req, elapsed, inflight,
          proc, exchange, limiter, now, conns, hist>>

\* the process, its middleware and the rate limiter
web == <<proc, exchange, limiter, now, conns, hist>>

\* what a handler called on its own leaves alone: the request envelope, the
\* timing of its store calls, the concurrent invocations and the middleware
aux == <<req, elapsed, inflight, web>>

\* an optional body field (a Go pointer): unset, or set to a value
Unset(zero) == [set |-> FALSE, v |-> zero]
Some(x) == [set |-> TRUE, v |-> x]

\* the optional fields UpdateTask callers send
TitleOpts == {Unset(""), Some("B")}
DescriptionOpts == {Unset(""), Some("")}
CompletedOpts == {Unset(FALSE), Some(TRUE), Some(FALSE)}

EmptyBody == [Title |-> Unset(""), Description |-> Unset(""),
              Completed |-> Unset(FALSE)]

\* a response: the handler (op), its input (ID, Completed, Title, Description,
\* Body), the error or "nil", the returned Task, slice or deleted id, and the
\* number of store calls the invocation issued
NoResp == [op |-> "none", ID |-> <<>>, Completed |-> "", Title |-> "",
           Description |-> "", Body |-> EmptyBody, err |-> "nil",
           task |-> ZeroTask, tasks |-> NilSlice, deletedID |-> <<>>,
           calls |-> 0]

\* no request yet
NoReq == [entry |-> "none", route |-> "none", key |-> "", limited |-> FALSE]

\* number of UpdateTask invocations that run concurrently
NumSlots == 2
Slots == 1..NumSlots

\* an UpdateTask invocation that has not started
IdleCall == [pc |-> "idle", objectID |-> NilObjectID, update |-> <<>>,
             resp |-> NoResp, seq |-> 0]

\* the process has not been started
NoProc == [entry |-> "none", pc |-> "down", tracer |-> "none", handled |-> 0,
           untraced |-> 0]

\* a header value or an address: a sequence of characters, <<>> when absent
NoHeader == <<>>

\* no exchange yet
NoExchange == [entry |-> "none", method |-> "none", key |-> "", env |-> "",
               limited |-> FALSE, forwardedFor |-> NoHeader,
               realIP |-> NoHeader, remoteAddr |-> NoHeader,
               status |-> "none", headers |-> {}, handled |-> 0, saw |-> <<>>,
               passed |-> <<>>]

\* the connection addresses requests come from, and the values they send in
\* X-Forwarded-For and X-Real-IP
RemoteAddrs == {<<"1", ":", "9">>}
ForwardedFors == {NoHeader, <<"6">>}
RealIPs == {NoHeader, <<"6">>}

\* the keys of the visitors table those requests produce
IPs == {<<"1">>, <<"6">>}

\* the limiter settings: tokens gained per second, and the bucket size
Rate == 10
Burst == 20

\* the clock counts token intervals, so a second is Rate of them
Second == Rate
Minute == 60 * Second

\* no entry under a key (a missing map entry), limiter 0 being the nil pointer
NoVisitor == [limiter |-> 0, lastSeen |-> 0]

\* number of requests that enter RateLimit concurrently
NumConns == 3
Conns == 1..NumConns

\* a request that has not entered RateLimit
IdleConn == [pc |-> "idle", ip |-> NoHeader, limiter |-> 0, status |-> "none",
             epoch |-> 0]

\* nothing admitted since time last advanced, nothing removed, nothing swept;
\* had: the tokens the limiter of the last request held when it was asked
NoHist == [had |-> 0, byKey |-> [ip \in IPs |-> 0],
           byAddr |-> [a \in RemoteAddrs |-> 0],
           removals |-> [ip \in IPs |-> 0], swept |-> {}]

Init ==
    /\ store = <<>>
    /\ resp = NoResp
    /\ before = <<>>
    /\ req = NoReq
    /\ elapsed = <<>>
    /\ inflight = [s \in Slots |-> IdleCall]
    /\ proc = NoProc
    /\ exchange = NoExchange
    /\ limiter = [visitors |-> [ip \in IPs |-> NoVisitor], heap |-> <<>>,
                  sleepUntil |-> Minute]
    /\ now = 0
    /\ conns = [c \in Conns |-> IdleConn]
    /\ hist = NoHist

(***************************************************************************)
(* GetAllTasks                                                             *)
(***************************************************************************)
\* (mutant) the "false" case is missing: completed=false selects every task
ListFilterTrueOnly(completed) ==
    IF completed = "true" THEN [completed |-> TRUE] ELSE <<>>

\* the filter document built from the query parameter
ListFilter(completed) ==
    IF completed = "true" THEN [completed |-> TRUE]
    ELSE IF completed = "false" THEN [completed |-> FALSE]
    ELSE <<>>

\* (mutant) no nil check: the decoded slice is the body
ListBodyAsDecoded(tasks) == tasks

\* the body returned for the decoded slice: nil becomes the empty slice
ListBody(tasks) == IF tasks.nil THEN [nil |-> FALSE, elems |-> <<>>] ELSE tasks

GetAllTasksResp(st, completed, fail) ==
    LET base == [NoResp EXCEPT !.op = "list", !.Completed = completed,
                               !.calls = 1]
    IN  IF fail THEN [base EXCEPT !.err = Error500InternalServerError]
        ELSE [base EXCEPT !.tasks =
                 ListBody(CursorAll(Find(st, ListFilter(completed))))]

GetAllTasks(completed, fail) ==
    /\ resp' = GetAllTasksResp(store, completed, fail)
    /\ before' = store
    /\ UNCHANGED store

(***************************************************************************)
(* GetTaskByID                                                             *)
(***************************************************************************)
\* collection.FindOne(filter {_id: oid}).Decode: ErrNoDocuments on a miss
FindOne(st, oid) ==
    LET m == Find(st, [_id |-> oid])
    IN  IF Len(m) = 0 THEN [noDocuments |-> TRUE, task |-> ZeroTask]
        ELSE [noDocuments |-> FALSE, task |-> Decode(m[1])]

\* (mutant) ErrNoDocuments is not told apart: every lookup error is a 500
GetTaskLookupNoMiss(st, id, parsed, found, fail) ==
    LET base == [NoResp EXCEPT !.op = "get", !.ID = id]
    IN  IF parsed.err THEN [base EXCEPT !.err = Error400BadRequest]
        ELSE IF fail \/ found.noDocuments
             THEN [base EXCEPT !.err = Error500InternalServerError, !.calls = 1]
        ELSE [base EXCEPT !.task = found.task, !.calls = 1]

\* (mutant) the lookup is issued before the id is validated
GetTaskLookupStoreFirst(st, id, parsed, found, fail) ==
    LET base == [NoResp EXCEPT !.op = "get", !.ID = id]
    IN  IF fail
        THEN [base EXCEPT !.err = Error500InternalServerError, !.calls = 1]
        ELSE IF parsed.err
             THEN [base EXCEPT !.err = Error400BadRequest, !.calls = 1]
        ELSE IF found.noDocuments
             THEN [base EXCEPT !.err = Error404NotFound, !.calls = 1]
        ELSE [base EXCEPT !.task = found.task, !.calls = 1]

\* steps 2-5 of GetTaskByID, for the decoded id
GetTaskLookup(st, id, parsed, found, fail) ==
    LET base == [NoResp EXCEPT !.op = "get", !.ID = id]
    IN  IF parsed.err THEN [base EXCEPT !.err = Error400BadRequest]
        ELSE IF fail
             THEN [base EXCEPT !.err = Error500InternalServerError, !.calls = 1]
        ELSE IF found.noDocuments
             THEN [base EXCEPT !.err = Error404NotFound, !.calls = 1]
        ELSE [base EXCEPT !.task = found.task, !.calls = 1]

\* the response of GetTaskByID for an id string; fail: the lookup fails
GetTaskByIDResp(st, id, fail) ==
    GetTaskLookup(st, id, ObjectIDFromHex(id),
                  FindOne(st, ObjectIDFromHex(id).oid), fail)

\* (mutant) the lookup is a FindOneAndDelete: reading a task removes it
GetTaskByIDFindAndDelete(id, fail) ==
    /\ resp' = GetTaskByIDResp(store, id, fail)
    /\ before' = store
    /\ store' = IF ObjectIDFromHex(id).err \/ fail THEN store
                ELSE DeleteOne(store, ObjectIDFromHex(id).oid)
GetTaskByID(id, fail) ==
    /\ resp' = GetTaskByIDResp(store, id, fail)
    /\ before' = store
    /\ UNCHANGED store

(***************************************************************************)
(* CreateTask                                                              *)
(***************************************************************************)
\* the Task built from the request body: no ID, not completed
NewTask(title, description) ==
    [ID |-> NilObjectID, Title |-> title, Description |-> description,
     Completed |-> FALSE]

\* collection.InsertOne: an unset ID (omitempty) is replaced by a generated one
InsertedID(t, generated) == IF t.ID = NilObjectID THEN generated ELSE t.ID

InsertOne(st, t, generated) ==
    Append(st, Marshal([t EXCEPT !.ID = InsertedID(t, generated)]))

\* (mutant) the inserted id is not set on the returned Task
CreatedTaskNoID(newTask, insertedID) == newTask

\* the Task CreateTask returns: the built Task with the inserted id
CreatedTask(newTask, insertedID) == [newTask EXCEPT !.ID = insertedID]

CreateTask(title, description, fail) ==
    LET newTask == NewTask(title, description)
        base == [NoResp EXCEPT !.op = "create", !.Title = title,
                               !.Description = description, !.calls = 1]
    IN  /\ before' = store
        /\ IF fail
           THEN /\ resp' = [base EXCEPT !.err = Error500InternalServerError]
                /\ UNCHANGED store
           ELSE /\ OidPool \ StoreIds(store) # {}
                /\ \E generated \in OidPool \ StoreIds(store) :
                     /\ store' = InsertOne(store, newTask, generated)
                     /\ resp' = [base EXCEPT !.task =
                          CreatedTask(newTask, InsertedID(newTask, generated))]

(***************************************************************************)
(* UpdateTask: existence fetch, patch apply, re-fetch                      *)
(***************************************************************************)
\* (mutant) the update set also writes the id field
BuildUpdateWithID(body) ==
    [k \in {f \in {"_id", "title", "description", "completed"} :
               \/ f = "_id"
               \/ f = "title" /\ body.Title.set
               \/ f = "description" /\ body.Description.set
               \/ f = "completed" /\ body.Completed.set} |->
        IF k = "_id" THEN NilObjectID
        ELSE IF k = "title" THEN body.Title.v
        ELSE IF k = "description" THEN body.Description.v
        ELSE body.Completed.v]
\* (mutant) a full replace: unset fields are written with their zero values
BuildUpdateAll(body) ==
    [title |-> body.Title.v, description |-> body.Description.v,
     completed |-> body.Completed.v]

\* the $set document: only the fields the body carries
BuildUpdate(body) ==
    [k \in {f \in {"title", "description", "completed"} :
               \/ f = "title" /\ body.Title.set
               \/ f = "description" /\ body.Description.set
               \/ f = "completed" /\ body.Completed.set} |->
        IF k = "title" THEN body.Title.v
        ELSE IF k = "description" THEN body.Description.v
        ELSE body.Completed.v]

\* (mutant) the empty update set is not rejected
NothingToUpdateNever(update) == FALSE

\* len(update["$set"]) == 0: the body carried no field
NothingToUpdate(update) == DOMAIN update = {}

\* (mutant) the empty update set is rejected before the existence fetch
UpdateTaskFindEmptyFirst(st, id, body, fail) ==
    LET parsed == ObjectIDFromHex(id)
        base == [NoResp EXCEPT !.op = "update", !.ID = id, !.Body = body]
        update == BuildUpdate(body)
        return(r) == [done |-> TRUE, resp |-> r, objectID |-> parsed.oid,
                      update |-> update]
    IN  IF parsed.err THEN return([base EXCEPT !.err = Error400BadRequest])
        ELSE IF NothingToUpdate(update)
             THEN return([base EXCEPT !.err = Error400BadRequest])
        ELSE IF fail
             THEN return([base EXCEPT !.err = Error500InternalServerError,
                                      !.calls = 1])
        ELSE IF FindOne(st, parsed.oid).noDocuments
             THEN return([base EXCEPT !.err = Error404NotFound, !.calls = 1])
        ELSE [done |-> FALSE, resp |-> [base EXCEPT !.calls = 1],
              objectID |-> parsed.oid, update |-> update]

\* steps 1-5: decode the id, fetch the task, build the update, reject it if
\* empty.  done: the handler has returned resp
UpdateTaskFind(st, id, body, fail) ==
    LET parsed == ObjectIDFromHex(id)
        base == [NoResp EXCEPT !.op = "update", !.ID = id, !.Body = body]
        update == BuildUpdate(body)
        return(r) == [done |-> TRUE, resp |-> r, objectID |-> parsed.oid,
                      update |-> update]
    IN  IF parsed.err THEN return([base EXCEPT !.err = Error400BadRequest])
        ELSE IF fail
             THEN return([base EXCEPT !.err = Error500InternalServerError,
                                      !.calls = 1])
        ELSE IF FindOne(st, parsed.oid).noDocuments
             THEN return([base EXCEPT !.err = Error404NotFound, !.calls = 1])
        ELSE IF NothingToUpdate(update)
             THEN return([base EXCEPT !.err = Error400BadRequest, !.calls = 1])
        ELSE [done |-> FALSE, resp |-> [base EXCEPT !.calls = 1],
              objectID |-> parsed.oid, update |-> update]

\* step 6: UpdateOne, its error and its matched count
UpdateTaskApply(st, f, fail) ==
    IF fail
    THEN [done |-> TRUE, store |-> st,
          resp |-> [f.resp EXCEPT !.err = Error500InternalServerError,
                                  !.calls = 2]]
    ELSE IF MatchedCount(st, f.objectID) = 0
    THEN [done |-> TRUE, store |-> UpdateOne(st, f.objectID, f.update),
          resp |-> [f.resp EXCEPT !.err = Error404NotFound, !.calls = 2]]
    ELSE [done |-> FALSE, store |-> UpdateOne(st, f.objectID, f.update),
          resp |-> [f.resp EXCEPT !.calls = 2]]

\* (mutant) the error of the re-fetch is returned
UpdateTaskRefetchChecked(st, f, a, fail) ==
    IF fail
    THEN [a.resp EXCEPT !.err = Error500InternalServerError, !.calls = 3]
    ELSE IF FindOne(st, f.objectID).noDocuments
    THEN [a.resp EXCEPT !.err = Error404NotFound, !.calls = 3]
    ELSE [a.resp EXCEPT !.task = FindOne(st, f.objectID).task, !.calls = 3]

\* steps 7-8: the re-fetch decodes into a zero Task and its error is not
\* looked at, so a failed or empty re-fetch returns the zero Task
UpdateTaskRefetch(st, f, a, fail) ==
    [a.resp EXCEPT !.task = IF fail \/ FindOne(st, f.objectID).noDocuments
                            THEN ZeroTask
                            ELSE FindOne(st, f.objectID).task,
                   !.calls = 3]

\* failAt: which of the store calls the invocation issues fails, 0 for none
UpdateTask(id, body, failAt) ==
    \E f \in {UpdateTaskFind(store, id, body, failAt = 1)} :
        /\ f.done => failAt <= f.resp.calls
        /\ before' = store
        /\ IF f.done
           THEN /\ resp' = f.resp
                /\ UNCHANGED store
           ELSE \E a \in {UpdateTaskApply(store, f, failAt = 2)} :
                /\ a.done => failAt <= a.resp.calls
                /\ store' = a.store
                /\ resp' = IF a.done THEN a.resp
                           ELSE UpdateTaskRefetch(a.store, f, a, failAt = 3)

(***************************************************************************)
(* DeleteTask                                                              *)
(***************************************************************************)
DeletedCount(st, oid) == IF oid \in StoreIds(st) THEN 1 ELSE 0

\* (mutant) the deleted count is not looked at
DeleteTaskRespNoCount(id, parsed, deletedCount, fail) ==
    LET base == [NoResp EXCEPT !.op = "delete", !.ID = id]
    IN  IF parsed.err THEN [base EXCEPT !.err = Error400BadRequest]
        ELSE IF fail
             THEN [base EXCEPT !.err = Error500InternalServerError, !.calls = 1]
        ELSE [base EXCEPT !.deletedID = id, !.calls = 1]

\* (mutant) the confirmation is objectID.Hex(), not the id string received
DeleteTaskRespHexEcho(id, parsed, deletedCount, fail) ==
    LET base == [NoResp EXCEPT !.op = "delete", !.ID = id]
    IN  IF parsed.err THEN [base EXCEPT !.err = Error400BadRequest]
        ELSE IF fail
             THEN [base EXCEPT !.err = Error500InternalServerError, !.calls = 1]
        ELSE IF deletedCount = 0
             THEN [base EXCEPT !.err = Error404NotFound, !.calls = 1]
        ELSE [base EXCEPT !.deletedID = Hex(parsed.oid), !.calls = 1]

\* the response of DeleteTask, given the decoded id and the deleted count
DeleteTaskResp(id, parsed, deletedCount, fail) ==
    LET base == [NoResp EXCEPT !.op = "delete", !.ID = id]
    IN  IF parsed.err THEN [base EXCEPT !.err = Error400BadRequest]
        ELSE IF fail
             THEN [base EXCEPT !.err = Error500InternalServerError, !.calls = 1]
        ELSE IF deletedCount = 0
             THEN [base EXCEPT !.err = Error404NotFound, !.calls = 1]
        ELSE [base EXCEPT !.deletedID = id, !.calls = 1]

DeleteTask(id, fail) ==
    \E parsed \in {ObjectIDFromHex(id)} :
        /\ resp' = DeleteTaskResp(id, parsed, DeletedCount(store, parsed.oid),
                                  fail)
        /\ store' = IF parsed.err \/ fail THEN store
                    ELSE DeleteOne(store, parsed.oid)
        /\ before' = store

(***************************************************************************)
(* Specification                                                           *)
(***************************************************************************)
Bodies == [Title : TitleOpts, Description : DescriptionOpts,
           Completed : CompletedOpts]

\* the handlers, called one at a time
Next ==
    \/ \E c \in CompletedParams, fail \in BOOLEAN :
          GetAllTasks(c, fail) /\ UNCHANGED aux
    \/ \E id \in ExternalIDs, fail \in BOOLEAN :
          GetTaskByID(id, fail) /\ UNCHANGED aux
    \/ \E t \in Titles, d \in Descriptions, fail \in BOOLEAN :
          CreateTask(t, d, fail) /\ UNCHANGED aux
    \/ \E id \in ExternalIDs, b \in Bodies, failAt \in 0..3 :
          UpdateTask(id, b, failAt) /\ UNCHANGED aux
    \/ \E id \in ExternalIDs, fail \in BOOLEAN :
          DeleteTask(id, fail) /\ UNCHANGED aux

Spec == Init /\ [][Next]_vars

(***************************************************************************)
(* Properties                                                              *)
(*                                                                         *)
(* Every action sets resp to the response of the invocation it models and  *)
(* before to the collection it started from, so in every state resp names  *)
(* the last handler that ran, its input and its result, before is the      *)
(* collection before that call and store the collection after it.          *)
(***************************************************************************)
HexChars == {HexDigits[k] : k \in 1..16} \cup {UpperDigits[k] : k \in 1..16}

\* a 24-character string of hex digits
WellFormedID(s) == Len(s) = HexLen /\ \A i \in 1..Len(s) : s[i] \in HexChars

\* the positions of the documents with the id an id string denotes
Positions(st, id) == {i \in 1..Len(st) : st[i]._id = ObjectIDFromHex(id).oid}

Succeeded(op) == resp.op = op /\ resp.err = "nil"

\* C1  Partial-update preservation: a successful UpdateTask leaves in the stored
\* task every field the body carries equal to the value sent, every field the
\* body does not carry and the id as they were before the call, and leaves
\* every other task as it was.
C1_PartialUpdatePreservation ==
    Succeeded("update") =>
        /\ WellFormedID(resp.ID)
        /\ Positions(before, resp.ID) # {}
        /\ Len(store) = Len(before)
        /\ \A i \in 1..Len(before) :
              IF i \in Positions(before, resp.ID)
              THEN /\ store[i]._id = before[i]._id
                   /\ store[i].title =
                        IF resp.Body.Title.set THEN resp.Body.Title.v
                        ELSE before[i].title
                   /\ store[i].description =
                        IF resp.Body.Description.set
                        THEN resp.Body.Description.v
                        ELSE before[i].description
                   /\ store[i].completed =
                        IF resp.Body.Completed.set THEN resp.Body.Completed.v
                        ELSE before[i].completed
                   /\ DOMAIN store[i] = DOMAIN before[i]
              ELSE store[i] = before[i]

\* C1 witness: the update {completed: true} of the uncompleted task titled "A"
\* with description "D" has returned; the task keeps title and description
\* and is completed, and the other task of the collection is there.
C1_Witness ==
    /\ Succeeded("update")
    /\ resp.Body = [Title |-> Unset(""), Description |-> Unset(""),
                    Completed |-> Some(TRUE)]
    /\ Len(store) = 2
    /\ \E i \in Positions(store, resp.ID) :
          /\ before[i].completed = FALSE
          /\ store[i].title = "A"
          /\ store[i].description = "D"
          /\ store[i].completed = TRUE

\* C2  Empty-update rejection: UpdateTask of an existing task with no field in
\* the body leaves the collection as it was and, its existence fetch having
\* completed, returns 400 after that one store call (no UpdateOne is issued);
\* and on every collection, for every id of an existing task, the handler
\* returns that 400 at its empty-update check when the fetch completes.
C2_EmptyUpdateRejection ==
    /\ (/\ resp.op = "update"
        /\ resp.Body = EmptyBody
        /\ WellFormedID(resp.ID)
        /\ Positions(before, resp.ID) # {})
       => /\ store = before
          /\ resp.err # Error500InternalServerError =>
                /\ resp.err = Error400BadRequest
                /\ resp.calls = 1
    /\ \A id \in ExternalIDs :
          (WellFormedID(id) /\ Positions(store, id) # {}) =>
              /\ UpdateTaskFind(store, id, EmptyBody, FALSE).done
              /\ UpdateTaskFind(store, id, EmptyBody, FALSE).resp.err =
                    Error400BadRequest
              /\ UpdateTaskFind(store, id, EmptyBody, FALSE).resp.calls = 1

\* C2 witness: an empty update of an existing task was answered 400 after one
\* store call.
C2_Witness ==
    /\ resp.op = "update"
    /\ resp.Body = EmptyBody
    /\ Positions(before, resp.ID) # {}
    /\ resp.err = Error400BadRequest
    /\ resp.calls = 1

\* C3  Update-then-reread consistency: the Task a successful UpdateTask returns
\* is the Task a GetTaskByID of the same id returns right after it.
C3_UpdateThenReread ==
    Succeeded("update") =>
        /\ GetTaskByIDResp(store, resp.ID, FALSE).err = "nil"
        /\ GetTaskByIDResp(store, resp.ID, FALSE).task = resp.task

\* C4  Create round-trip: a successful CreateTask adds exactly one task, returns
\* it with the title and description sent, not completed, under an id no task
\* of the collection had, and a GetTaskByID of that id returns an equal Task;
\* a failed CreateTask adds nothing.
C4_CreateRoundTrip ==
    /\ Succeeded("create") =>
          /\ Len(store) = Len(before) + 1
          /\ \A i \in 1..Len(before) : store[i] = before[i]
          /\ resp.task.Title = resp.Title
          /\ resp.task.Description = resp.Description
          /\ resp.task.Completed = FALSE
          /\ resp.task.ID # NilObjectID
          /\ resp.task.ID \notin StoreIds(before)
          /\ store[Len(store)] = [_id |-> resp.task.ID, title |-> resp.Title,
                                  description |-> resp.Description,
                                  completed |-> FALSE]
          /\ GetTaskByIDResp(store, Hex(resp.task.ID), FALSE).err = "nil"
          /\ GetTaskByIDResp(store, Hex(resp.task.ID), FALSE).task = resp.task
    /\ resp.op = "create" /\ resp.err # "nil" => store = before

\* C4 witness: a second task, titled "B" with description "D", was created
\* next to an existing one.
C4_Witness ==
    /\ Succeeded("create")
    /\ resp.Title = "B"
    /\ resp.Description = "D"
    /\ Len(before) = 1
    /\ Len(store) = 2

\* the outcome the classification gives GetTaskByID of id on collection st
\* when its lookup fails (fail) or completes
Classified(st, id, fail) ==
    IF ~WellFormedID(id) THEN Error400BadRequest
    ELSE IF fail THEN Error500InternalServerError
    ELSE IF Positions(st, id) = {} THEN Error404NotFound
    ELSE "nil"

\* C5  GetTaskByID outcome classification: a malformed id gives 400; a
\* well-formed id gives 500 (the lookup failed), or 404 and no task has the id,
\* or the stored task with that id; the collection is not changed.  On every
\* collection and for every id string the handler's outcome is the classified
\* one, whether the lookup fails or completes.
C5_GetTaskOutcome ==
    /\ \A id \in ExternalIDs, fail \in BOOLEAN :
          GetTaskByIDResp(store, id, fail).err = Classified(store, id, fail)
    /\ resp.op = "get" =>
        /\ store = before
        /\ IF ~WellFormedID(resp.ID) THEN resp.err = Error400BadRequest
           ELSE \/ resp.err = Error500InternalServerError
                \/ /\ resp.err = Error404NotFound
                   /\ Positions(before, resp.ID) = {}
                \/ /\ resp.err = "nil"
                   /\ \E i \in Positions(before, resp.ID) :
                         resp.task = [ID |-> before[i]._id,
                                      Title |-> before[i].title,
                                      Description |-> before[i].description,
                                      Completed |-> before[i].completed]

\* C5 witness: the task created under the last id of the pool was fetched by the
\* upper-case spelling of its id.
C5_Witness ==
    /\ Succeeded("get")
    /\ resp.ID = UpperID
    /\ resp.task.ID = LastOid
    /\ resp.task.Title = "B"

\* C6  Identifier validation precedes store access: GetTaskByID, UpdateTask and
\* DeleteTask answer a malformed id with 400 without having issued a store
\* call (so also when every store call would fail), and change nothing.
C6_ValidationBeforeStore ==
    /\ (resp.op \in {"get", "update", "delete"} /\ ~WellFormedID(resp.ID)) =>
          /\ resp.err = Error400BadRequest
          /\ resp.calls = 0
          /\ store = before
    /\ \A id \in ExternalIDs, fail \in BOOLEAN :
          ~WellFormedID(id) =>
              /\ GetTaskByIDResp(store, id, fail).err = Error400BadRequest
              /\ GetTaskByIDResp(store, id, fail).calls = 0
              /\ \A b \in Bodies :
                    /\ UpdateTaskFind(store, id, b, fail).done
                    /\ UpdateTaskFind(store, id, b, fail).resp.err =
                          Error400BadRequest
                    /\ UpdateTaskFind(store, id, b, fail).resp.calls = 0
              /\ DeleteTaskResp(id, ObjectIDFromHex(id), 0, fail).err =
                    Error400BadRequest
              /\ DeleteTaskResp(id, ObjectIDFromHex(id), 0, fail).calls = 0

\* C6 witness: an update of a too short id was answered 400 with no store call,
\* while the collection holds a task.
C6_Witness ==
    /\ resp.op = "update"
    /\ resp.ID = ShortID
    /\ resp.err = Error400BadRequest
    /\ resp.calls = 0
    /\ Len(store) = 1

\* C7  Delete-then-absence: after a successful DeleteTask no task has the id,
\* so GetTaskByID and a second DeleteTask of it return 404; an id enters the
\* collection only as the id a successful CreateTask returns; and GetTaskByID
\* and DeleteTask of a well-formed id no task has return 404 (or 500 when
\* their store call fails) and leave it absent.
C7_DeleteThenAbsence ==
    /\ Succeeded("delete") =>
          /\ Positions(store, resp.ID) = {}
          /\ GetTaskByIDResp(store, resp.ID, FALSE).err = Error404NotFound
          /\ DeleteTaskResp(resp.ID, ObjectIDFromHex(resp.ID),
                            DeletedCount(store, ObjectIDFromHex(resp.ID).oid),
                            FALSE).err = Error404NotFound
    /\ \A oid \in StoreIds(store) \ StoreIds(before) :
          Succeeded("create") /\ resp.task.ID = oid
    /\ (/\ resp.op \in {"get", "delete"}
        /\ WellFormedID(resp.ID)
        /\ Positions(before, resp.ID) = {})
       => /\ resp.err \in {Error404NotFound, Error500InternalServerError}
          /\ store = before

\* C7 witness: one of two tasks was deleted.
C7_Witness ==
    /\ Succeeded("delete")
    /\ Len(before) = 2
    /\ Len(store) = 1
    /\ Positions(before, resp.ID) # {}
    /\ Positions(store, resp.ID) = {}

\* C8  DeleteTask effect: a successful DeleteTask removes the one task whose id
\* is the decoded id, keeps the others as they were and in their order, and
\* returns the id string it was given; a 404 means no task had the id and the
\* collection is as before.
C8_DeleteEffect ==
    /\ Succeeded("delete") =>
          /\ resp.deletedID = resp.ID
          /\ Len(store) = Len(before) - 1
          /\ \E k \in Positions(before, resp.ID) :
                \A i \in 1..Len(store) :
                    store[i] = IF i < k THEN before[i] ELSE before[i + 1]
    /\ resp.op = "delete" /\ resp.err = Error404NotFound =>
          /\ Positions(before, resp.ID) = {}
          /\ store = before

\* C8 witness: the first of two tasks was deleted by the upper-case spelling of
\* its id, which the response echoes.
C8_Witness ==
    /\ Succeeded("delete")
    /\ resp.ID = UpperID
    /\ resp.deletedID = UpperID
    /\ Len(before) = 2
    /\ before[1]._id = LastOid
    /\ store = <<before[2]>>

\* the documents a completed= query value selects
Selected(st, completed) ==
    {i \in 1..Len(st) : /\ completed = "true" => st[i].completed
                        /\ completed = "false" => ~st[i].completed}

\* C9  Filter correctness: a successful GetAllTasks returns each task whose
\* completed equals the filter ("true" or "false"; any other value selects
\* every task) exactly once and nothing else.
C9_FilterCorrectness ==
    (resp.op = "list" /\ resp.err = "nil") =>
        /\ store = before
        /\ Len(resp.tasks.elems) = Cardinality(Selected(before, resp.Completed))
        /\ \A i \in Selected(before, resp.Completed) :
              \E j \in 1..Len(resp.tasks.elems) :
                  resp.tasks.elems[j] = Decode(before[i])
        /\ \A j \in 1..Len(resp.tasks.elems) :
              \E i \in Selected(before, resp.Completed) :
                  resp.tasks.elems[j] = Decode(before[i])
        /\ \A j1, j2 \in 1..Len(resp.tasks.elems) :
              j1 # j2 => resp.tasks.elems[j1].ID # resp.tasks.elems[j2].ID

\* C9 witness: completed=false returned the one uncompleted task of two.
C9_Witness ==
    /\ resp.op = "list"
    /\ resp.err = "nil"
    /\ resp.Completed = "false"
    /\ Len(store) = 2
    /\ store[1].completed
    /\ resp.tasks.elems = <<Decode(store[2])>>

\* C10  GetAllTasks never returns an absent body: it returns 500 or a body that
\* is a defined sequence, the empty one when no task matches.
C10_ListNeverAbsent ==
    resp.op = "list" =>
        /\ resp.err \in {"nil", Error500InternalServerError}
        /\ resp.err = "nil" =>
              /\ ~resp.tasks.nil
              /\ Selected(before, resp.Completed) = {} => resp.tasks.elems = <<>>

\* C10 witness: completed=true on a collection with no completed task returned
\* the empty sequence.
C10_Witness ==
    /\ resp.op = "list"
    /\ resp.err = "nil"
    /\ resp.Completed = "true"
    /\ Len(store) = 1
    /\ ~resp.tasks.nil
    /\ resp.tasks.elems = <<>>

\* C11  Identifier immutability: every stored task has an id the store
\* generated, no two tasks share one, the update set UpdateTask builds has no
\* id field, and no handler changes the id of a task: GetAllTasks, GetTaskByID
\* and UpdateTask leave every task's id where it was, CreateTask leaves the
\* tasks that were there with their ids and stores the new one under the id it
\* returns, and DeleteTask leaves the remaining tasks with their ids.
C11_IdentifierImmutability ==
    /\ \A b \in Bodies : "_id" \notin DOMAIN BuildUpdate(b)
    /\ \A i \in 1..Len(store) : store[i]._id \in OidPool
    /\ \A i, j \in 1..Len(store) : i # j => store[i]._id # store[j]._id
    /\ resp.op \in {"list", "get", "update"} =>
          /\ Len(store) = Len(before)
          /\ \A i \in 1..Len(before) : store[i]._id = before[i]._id
    /\ resp.op = "create" =>
          /\ \A i \in 1..Len(before) : store[i]._id = before[i]._id
          /\ resp.err = "nil" => store[Len(store)]._id = resp.task.ID
    /\ resp.op = "delete" =>
          \E k \in 1..(Len(before) + 1) :
              \A i \in 1..Len(store) :
                  IF i < k THEN store[i]._id = before[i]._id
                  ELSE /\ i + 1 <= Len(before)
                       /\ store[i]._id = before[i + 1]._id

\* C11 witness: an update that changed the title of the second of two tasks has
\* returned, and both tasks have the ids they had.
C11_Witness ==
    /\ Succeeded("update")
    /\ resp.Body.Title.set
    /\ Len(store) = 2
    /\ Positions(store, resp.ID) = {2}
    /\ store[2].title # before[2].title
    /\ store[1]._id = before[1]._id
    /\ store[2]._id = before[2]._id

\* C13  Reads are pure: GetTaskByID and GetAllTasks leave the collection as it
\* was, and the same call made again right after one whose store call completed
\* returns the identical result (the same task or list, or the same error).
C13_ReadsArePure ==
    /\ resp.op \in {"get", "list"} => store = before
    /\ (resp.op = "get" /\ resp.err # Error500InternalServerError) =>
          GetTaskByIDResp(store, resp.ID, FALSE) = resp
    /\ (resp.op = "list" /\ resp.err # Error500InternalServerError) =>
          GetAllTasksResp(store, resp.Completed, FALSE) = resp

\* C13 witness: the second of two tasks was fetched; both tasks are still there.
C13_Witness ==
    /\ Succeeded("get")
    /\ Len(before) = 2
    /\ Len(store) = 2
    /\ resp.task = Decode(store[2])

\* C14  Task lifecycle: an invocation leaves the set of ids as it was, or it is
\* a successful CreateTask that added the id it returns, or a successful
\* DeleteTask that removed the id it was given.  GetTaskByID, UpdateTask and
\* DeleteTask of a well-formed id no task has return 404 (500 when their store
\* call fails) and the id is still absent; UpdateOne on such an id stores
\* nothing.
C14_TaskLifecycle ==
    /\ \/ StoreIds(store) = StoreIds(before)
       \/ /\ Succeeded("create")
          /\ resp.task.ID \notin StoreIds(before)
          /\ StoreIds(store) = StoreIds(before) \cup {resp.task.ID}
       \/ /\ Succeeded("delete")
          /\ ObjectIDFromHex(resp.ID).oid \in StoreIds(before)
          /\ StoreIds(store) = StoreIds(before) \ {ObjectIDFromHex(resp.ID).oid}
    /\ Cardinality(StoreIds(store)) = Len(store)
    /\ (/\ resp.op \in {"get", "update", "delete"}
        /\ WellFormedID(resp.ID)
        /\ Positions(before, resp.ID) = {})
       => /\ resp.err \in {Error404NotFound, Error500InternalServerError}
          /\ store = before
          /\ Positions(store, resp.ID) = {}
    /\ \A id \in ExternalIDs :
          (WellFormedID(id) /\ Positions(store, id) = {}) =>
              /\ GetTaskByIDResp(store, id, FALSE).err = Error404NotFound
              /\ DeleteTaskResp(id, ObjectIDFromHex(id),
                                DeletedCount(store, ObjectIDFromHex(id).oid),
                                FALSE).err = Error404NotFound
              /\ DeleteOne(store, ObjectIDFromHex(id).oid) = store
              /\ \A b \in Bodies :
                    /\ UpdateTaskFind(store, id, b, FALSE).done
                    /\ UpdateTaskFind(store, id, b, FALSE).resp.err =
                          Error404NotFound
                    /\ UpdateOne(store, ObjectIDFromHex(id).oid,
                                 BuildUpdate(b)) = store

\* C14 witness: an update with a title of an id no task has was answered 404
\* while the collection holds another task.
C14_Witness ==
    /\ resp.op = "update"
    /\ resp.err = Error404NotFound
    /\ resp.Body.Title.set
    /\ Len(store) = 1
    /\ WellFormedID(resp.ID)
    /\ Positions(store, resp.ID) = {}

\* C15  UpdateTask never swallows a store failure: whichever of the store calls
\* it issues fails (the existence fetch, the patch apply or the re-fetch), the
\* invocation returns 404 or 500.
C15_UpdateNeverSwallows ==
    \A id \in ExternalIDs, b \in Bodies :
        /\ UpdateTaskFind(store, id, b, TRUE).resp.calls = 1 =>
              UpdateTaskFind(store, id, b, TRUE).resp.err
                  \in {Error404NotFound, Error500InternalServerError}
        /\ ~UpdateTaskFind(store, id, b, FALSE).done =>
              \E f \in {UpdateTaskFind(store, id, b, FALSE)} :
                  /\ UpdateTaskApply(store, f, TRUE).resp.err
                        \in {Error404NotFound, Error500InternalServerError}
                  /\ \E a \in {UpdateTaskApply(store, f, FALSE)} :
                        ~a.done =>
                            UpdateTaskRefetch(a.store, f, a, TRUE).err
                                \in {Error404NotFound,
                                     Error500InternalServerError}

(***************************************************************************)
(* The HTTP entry points: middleware chain, input validation, handler      *)
(*                                                                         *)
(* Three programs serve the task routes: the standalone server, the server *)
(* of cmd/api and the Lambda handler.  Each installs its own middleware    *)
(* (router.Use) in front of the huma operations; huma validates the path   *)
(* parameter and the body against the tags of the input types before it    *)
(* calls the handler.  Store failures are part of Spec; here every store   *)
(* call completes.                                                         *)
(***************************************************************************)
EntryPoints == {"server", "api", "lambda"}

\* the middleware each entry point installs, outermost first
ServerMiddleware == <<"Tracing", "Logging", "CORS", "Auth">>
APIMiddleware == <<"Logging", "CORS">>
LambdaMiddleware ==
    <<"Tracing", "Logging", "RateLimit", "SecurityHeaders", "CORS">>

Middleware(entry) ==
    IF entry = "server" THEN ServerMiddleware
    ELSE IF entry = "api" THEN APIMiddleware
    ELSE LambdaMiddleware

\* the routes of the task operations (none is an OPTIONS request)
TaskRoutes == {"GET /tasks", "GET /tasks/{id}", "POST /tasks",
               "PUT /tasks/{id}", "DELETE /tasks/{id}"}

\* os.Getenv("API_KEY"), and the X-API-Key headers callers send ("": none)
APIKey == "secret"
Keys == {"", "secret", "wrong"}

StatusUnauthorized == "401 Unauthorized"
StatusForbidden == "403 Forbidden"
StatusTooManyRequests == "429 Too Many Requests"
Error422UnprocessableEntity == "422 Unprocessable Entity"

\* middleware.Auth: "next" when the request carries the configured key
Auth(requestAPIKey) ==
    IF requestAPIKey = "" THEN StatusUnauthorized
    ELSE IF requestAPIKey # APIKey THEN StatusForbidden
    ELSE "next"

\* middleware.RateLimit; limited: the visitor's limiter does not allow
RateLimit(limited) == IF limited THEN StatusTooManyRequests ELSE "next"

\* one middleware: the status it answers with, or "next"
Through(mw, key, limited) ==
    IF mw = "Auth" THEN Auth(key)
    ELSE IF mw = "RateLimit" THEN RateLimit(limited)
    ELSE "next"

\* the chain of an entry point: the answer of the first middleware that does
\* not call next, or "next" when the request reaches the huma operation
RECURSIVE Chain(_, _, _)
Chain(mws, key, limited) ==
    IF mws = <<>> THEN "next"
    ELSE IF Through(Head(mws), key, limited) # "next"
         THEN Through(Head(mws), key, limited)
    ELSE Chain(Tail(mws), key, limited)

\* the length tags of the input types
IDLength == 24
TitleMinLength == 1
TitleMaxLength == 200
DescriptionMaxLength == 1000

\* path:"id" minLength:"24" maxLength:"24"
ValidID(id) == Len(id) >= IDLength /\ Len(id) <= IDLength

\* CreateTaskInput.Body: title minLength 1, maxLength 200; description
\* maxLength 1000
ValidCreateBody(title, description) ==
    /\ Len(title) >= TitleMinLength
    /\ Len(title) <= TitleMaxLength
    /\ Len(description) <= DescriptionMaxLength

\* (mutant) the title of the update body has no minLength
ValidUpdateBodyAnyTitle(body) ==
    /\ body.Title.set => Len(body.Title.v) <= TitleMaxLength
    /\ body.Description.set => Len(body.Description.v) <= DescriptionMaxLength

\* UpdateTaskInput.Body: the same tags on the fields that are present
ValidUpdateBody(body) ==
    /\ body.Title.set => /\ Len(body.Title.v) >= TitleMinLength
                         /\ Len(body.Title.v) <= TitleMaxLength
    /\ body.Description.set => Len(body.Description.v) <= DescriptionMaxLength

\* the requests callers send
ServeIDs == {Hex(MkOid(171)), ShortID, NonHexID}
ServeTitles == {"", "A"}
ServeBodies == {b \in [Title : {Unset(""), Some(""), Some("B")},
                       Description : {Unset("")},
                       Completed : {Unset(FALSE), Some(TRUE)}] :
                   b.Title.set # b.Completed.set}

Request(entry, route, key, limited) ==
    [entry |-> entry, route |-> route, key |-> key, limited |-> limited]

\* the request is answered by a middleware or by huma's validation; no
\* handler runs
Refuse(r, status) ==
    /\ req' = r
    /\ resp' = [NoResp EXCEPT !.err = status]
    /\ before' = store
    /\ UNCHANGED <<store, elapsed, inflight, web>>

\* the request reaches its handler
Admit(r) ==
    /\ req' = r
    /\ UNCHANGED <<elapsed, inflight, web>>

ServeGetAllTasks(r, completed) ==
    \E out \in {Chain(Middleware(r.entry), r.key, r.limited)} :
        IF out # "next" THEN Refuse(r, out)
        ELSE Admit(r) /\ GetAllTasks(completed, FALSE)

ServeGetTaskByID(r, id) ==
    \E out \in {Chain(Middleware(r.entry), r.key, r.limited)} :
        IF out # "next" THEN Refuse(r, out)
        ELSE IF ~ValidID(id) THEN Refuse(r, Error422UnprocessableEntity)
        ELSE Admit(r) /\ GetTaskByID(id, FALSE)

ServeCreateTask(r, title, description) ==
    \E out \in {Chain(Middleware(r.entry), r.key, r.limited)} :
        IF out # "next" THEN Refuse(r, out)
        ELSE IF ~ValidCreateBody(title, description)
             THEN Refuse(r, Error422UnprocessableEntity)
        ELSE Admit(r) /\ CreateTask(title, description, FALSE)

ServeUpdateTask(r, id, body) ==
    \E out \in {Chain(Middleware(r.entry), r.key, r.limited)} :
        IF out # "next" THEN Refuse(r, out)
        ELSE IF ~ValidID(id) \/ ~ValidUpdateBody(body)
             THEN Refuse(r, Error422UnprocessableEntity)
        ELSE Admit(r) /\ UpdateTask(id, body, 0)

ServeDeleteTask(r, id) ==
    \E out \in {Chain(Middleware(r.entry), r.key, r.limited)} :
        IF out # "next" THEN Refuse(r, out)
        ELSE IF ~ValidID(id) THEN Refuse(r, Error422UnprocessableEntity)
        ELSE Admit(r) /\ DeleteTask(id, FALSE)

NextServe ==
    \E entry \in EntryPoints, key \in Keys, limited \in BOOLEAN :
        \/ ServeGetAllTasks(Request(entry, "GET /tasks", key, limited), "")
        \/ \E id \in ServeIDs :
              ServeGetTaskByID(Request(entry, "GET /tasks/{id}", key, limited),
                               id)
        \/ \E t \in ServeTitles :
              ServeCreateTask(Request(entry, "POST /tasks", key, limited),
                              t, "")
        \/ \E id \in ServeIDs, b \in ServeBodies :
              ServeUpdateTask(Request(entry, "PUT /tasks/{id}", key, limited),
                              id, b)
        \/ \E id \in ServeIDs :
              ServeDeleteTask(Request(entry, "DELETE /tasks/{id}", key,
                                      limited), id)

SpecServe == Init /\ [][NextServe]_vars

\* C12  Title non-emptiness: over HTTP, whatever requests are sent to whichever
\* entry point, every stored task has a non-empty title: a CreateTask with an
\* empty title and an UpdateTask whose title is present but empty are refused
\* by the validation (422) and leave the collection as it was.
C12_TitleNonEmpty ==
    /\ \A i \in 1..Len(store) : store[i].title # ""
    /\ \A b \in ServeBodies :
          (b.Title.set /\ b.Title.v = "") => ~ValidUpdateBody(b)
    /\ ~ValidCreateBody("", "")
    /\ resp.err = Error422UnprocessableEntity =>
          /\ resp.op = "none"
          /\ store = before

\* C12 witness: an update with a present but empty title of an existing task
\* whose title an earlier update set to "B" was refused with 422.
C12_Witness ==
    /\ req.route = "PUT /tasks/{id}"
    /\ resp.err = Error422UnprocessableEntity
    /\ Len(store) = 1
    /\ store[1].title = "B"
    /\ store[1].completed

\* C16  API-key protection: at the standalone server and at the Lambda handler,
\* a request to a task route that does not carry the configured API key
\* reaches no task handler, issues no store call and leaves the collection as
\* it was.
C16_APIKeyProtection ==
    (/\ req.entry \in {"server", "lambda"}
     /\ req.route \in TaskRoutes
     /\ req.key # APIKey) =>
        /\ resp.op = "none"
        /\ resp.calls = 0
        /\ store = before

(***************************************************************************)
(* Concurrent invocations                                                  *)
(*                                                                         *)
(* The HTTP server runs every request in its own goroutine, so the three   *)
(* store calls of an UpdateTask interleave with the store calls of other   *)
(* invocations; each store call is atomic.  Tasks are created first, then  *)
(* NumSlots UpdateTask invocations and any number of DeleteTask            *)
(* invocations run concurrently.                                           *)
(***************************************************************************)
RaceID == Hex(MkOid(171))
RaceTitle == "A"
RaceDescription == "D"

\* the bodies of the concurrent updates: completed, and title or description
RaceBodies == {b \in Bodies : b.Completed.set /\ b.Title.set # b.Description.set}

\* what the existence step hands to the later steps of the invocation
Found(c) == [done |-> FALSE, resp |-> c.resp, objectID |-> c.objectID,
             update |-> c.update]

\* the number of patch applies that have matched so far
Applied == Cardinality({t \in Slots : inflight[t].seq > 0})

RaceCreateTask ==
    /\ \A s \in Slots : inflight[s].pc = "idle"
    /\ CreateTask(RaceTitle, RaceDescription, FALSE)
    /\ UNCHANGED aux

\* steps 1-5 of UpdateTask in slot s; fail: the store call fails
StartUpdate(s, id, body, fail) ==
    /\ inflight[s].pc = "idle"
    /\ \E f \in {UpdateTaskFind(store, id, body, fail)} :
          inflight' = [inflight EXCEPT ![s] =
              [pc |-> IF f.done THEN "done" ELSE "apply",
               objectID |-> f.objectID, update |-> f.update,
               resp |-> f.resp, seq |-> 0]]
    /\ UNCHANGED <<store, resp, before, req, elapsed, web>>

\* step 6 in slot s
ApplyUpdate(s, fail) ==
    /\ inflight[s].pc = "apply"
    /\ \E a \in {UpdateTaskApply(store, Found(inflight[s]), fail)} :
          /\ store' = a.store
          /\ inflight' = [inflight EXCEPT ![s] =
                [@ EXCEPT !.pc = IF a.done THEN "done" ELSE "refetch",
                          !.resp = a.resp,
                          !.seq = IF a.done THEN 0 ELSE Applied + 1]]
    /\ UNCHANGED <<resp, before, req, elapsed, web>>

\* steps 7-8 in slot s
RefetchUpdate(s, fail) ==
    /\ inflight[s].pc = "refetch"
    /\ inflight' = [inflight EXCEPT ![s] =
          [@ EXCEPT !.pc = "done",
                    !.resp = UpdateTaskRefetch(store, Found(inflight[s]),
                                               [resp |-> inflight[s].resp],
                                               fail)]]
    /\ UNCHANGED <<store, resp, before, req, elapsed, web>>

RaceDeleteTask(id, fail) == DeleteTask(id, fail) /\ UNCHANGED aux

NextRace ==
    \/ RaceCreateTask
    \/ \E s \in Slots, b \in RaceBodies, fail \in BOOLEAN :
          StartUpdate(s, RaceID, b, fail)
    \/ \E s \in Slots, fail \in BOOLEAN : ApplyUpdate(s, fail)
    \/ \E s \in Slots, fail \in BOOLEAN : RefetchUpdate(s, fail)
    \/ \E fail \in BOOLEAN : RaceDeleteTask(RaceID, fail)

SpecRace == Init /\ [][NextRace]_vars

\* C17  Update/Delete race at the apply step: when the task an UpdateTask found
\* has been deleted before its patch apply, the apply matches nothing, stores
\* nothing and the invocation returns 404 (500 when the apply itself fails);
\* after it the task is still absent.
C17_UpdateDeleteRace ==
    \A s \in Slots :
        /\ (inflight[s].pc = "apply"
              /\ inflight[s].objectID \notin StoreIds(store)) =>
              \E a \in {UpdateTaskApply(store, Found(inflight[s]), FALSE)} :
                  /\ a.done
                  /\ a.resp.err = Error404NotFound
                  /\ a.store = store
        /\ (inflight[s].pc = "done" /\ inflight[s].resp.calls = 2) =>
              \/ inflight[s].resp.err = Error500InternalServerError
              \/ /\ inflight[s].resp.err = Error404NotFound
                 /\ inflight[s].objectID \notin StoreIds(store)

\* C17 witness: an UpdateTask that passed its existence check returned 404 from
\* its patch apply, the task having been deleted in between; another task is
\* in the collection, the deleted one is not.
C17_Witness ==
    \E s \in Slots :
        /\ inflight[s].pc = "done"
        /\ inflight[s].resp.calls = 2
        /\ inflight[s].resp.err = Error404NotFound
        /\ Succeeded("delete")
        /\ ObjectIDFromHex(resp.ID).oid = inflight[s].objectID
        /\ Len(store) = 1
        /\ inflight[s].objectID \notin StoreIds(store)

\* C29  No phantom Task under a racing delete: in every interleaving of an
\* UpdateTask with a DeleteTask of the same id, an UpdateTask that returns
\* success returns a Task whose id is the requested id and whose title is not
\* empty, also when the delete lands between the patch apply and the re-fetch.
C29_NoPhantomTask ==
    \A s \in Slots :
        /\ inflight[s].pc = "refetch" =>
              \E r \in {UpdateTaskRefetch(store, Found(inflight[s]),
                                          [resp |-> inflight[s].resp],
                                          FALSE)} :
                  r.err = "nil" =>
                      /\ r.task.ID = inflight[s].objectID
                      /\ r.task.Title # ""
        /\ (/\ inflight[s].pc = "done"
            /\ inflight[s].resp.err = "nil"
            /\ Succeeded("delete")
            /\ ObjectIDFromHex(resp.ID).oid = inflight[s].objectID) =>
              /\ inflight[s].resp.task.ID = inflight[s].objectID
              /\ inflight[s].resp.task.Title # ""

\* the value a task field is created with in the concurrent runs
Created(k) ==
    IF k = "title" THEN RaceTitle
    ELSE IF k = "description" THEN RaceDescription
    ELSE FALSE

\* the invocations whose patch apply matched the task oid and set field k
Setters(oid, k) ==
    {s \in Slots : /\ inflight[s].seq > 0
                   /\ inflight[s].objectID = oid
                   /\ k \in DOMAIN inflight[s].update}

\* C18  Concurrent updates merge at field level: however the store calls of
\* concurrent UpdateTask invocations of one id interleave, every field of the
\* stored task has the value of the patch applied last among those that set
\* it (so the value of the one invocation that set it, when only one did) and
\* the value it was created with when none set it; an invocation whose patch
\* apply matched returns no error, so none reports a conflict.
C18_FieldLevelMerge ==
    /\ \A s \in Slots :
          inflight[s].seq > 0 => inflight[s].resp.err = "nil"
    /\ \A i \in 1..Len(store), k \in {"title", "description", "completed"} :
          store[i][k] =
              IF Setters(store[i]._id, k) = {} THEN Created(k)
              ELSE inflight[CHOOSE s \in Setters(store[i]._id, k) :
                               \A t \in Setters(store[i]._id, k) :
                                   inflight[t].seq <= inflight[s].seq].update[k]

\* C18 witness: two updates of one task have both succeeded, one setting the
\* title and completed, the other the description and the opposite completed;
\* the one applied first re-fetched after the other's apply, so it returned
\* the other's value of completed; the task has the title of the one, the
\* description of the other and the completed of the one applied last.
C18_Witness ==
    \E s, t \in Slots :
        /\ inflight[s].pc = "done" /\ inflight[s].resp.err = "nil"
        /\ inflight[t].pc = "done" /\ inflight[t].resp.err = "nil"
        /\ inflight[s].objectID = inflight[t].objectID
        /\ inflight[s].seq = 1
        /\ inflight[t].seq = 2
        /\ DOMAIN inflight[s].update = {"title", "completed"}
        /\ DOMAIN inflight[t].update = {"description", "completed"}
        /\ inflight[s].update.completed # inflight[t].update.completed
        /\ inflight[s].resp.task.Completed = inflight[t].update.completed
        /\ \E i \in 1..Len(store) :
              /\ store[i]._id = inflight[s].objectID
              /\ store[i].title = inflight[s].update.title
              /\ store[i].description = inflight[t].update.description
              /\ store[i].completed = inflight[t].update.completed

(***************************************************************************)
(* Timeouts                                                                *)
(*                                                                         *)
(* Every handler creates one context with a 5 second timeout               *)
(* (context.WithTimeout) and passes it to each store call it issues.  A    *)
(* store call needs some time to answer; it fails with the context's       *)
(* deadline when the time the context has left is shorter.  Here a store   *)
(* call fails only so.                                                     *)
(***************************************************************************)
\* 5*time.Second
Timeout == 5

\* the time the store needs to answer a call; the last one: it does not answer
\* within any timeout
Durations == {1, 3, Timeout + 1}

\* a store call that needs d, under a context of which used is spent
DeadlineExceeded(used, d) == used + d > Timeout

\* UpdateTask passes the one dbCtx to its three store calls: the first call the
\* deadline cuts off, 0 when all three answer in time
UpdateTaskDeadlineAt(ds) ==
    IF DeadlineExceeded(0, ds[1]) THEN 1
    ELSE IF DeadlineExceeded(ds[1], ds[2]) THEN 2
    ELSE IF DeadlineExceeded(ds[1] + ds[2], ds[3]) THEN 3
    ELSE 0

\* the requests of the timed runs
TimedIDs == {Hex(MkOid(171)), NonHexID}
TimedBodies == {b \in Bodies : /\ ~b.Description.set
                               /\ b.Title.set # b.Completed.set
                               /\ b.Completed.v = b.Completed.set}

\* the durations of the store calls the invocation issued
Issued(ds, r) == SubSeq(ds, 1, r.calls)

TimedGetAllTasks(completed, d) ==
    /\ GetAllTasks(completed, DeadlineExceeded(0, d))
    /\ elapsed' = Issued(<<d>>, resp')
    /\ UNCHANGED <<req, inflight, web>>

TimedGetTaskByID(id, d) ==
    /\ GetTaskByID(id, DeadlineExceeded(0, d))
    /\ elapsed' = Issued(<<d>>, resp')
    /\ UNCHANGED <<req, inflight, web>>

TimedCreateTask(title, description, d) ==
    /\ CreateTask(title, description, DeadlineExceeded(0, d))
    /\ elapsed' = Issued(<<d>>, resp')
    /\ UNCHANGED <<req, inflight, web>>

TimedUpdateTask(id, body, ds) ==
    /\ UpdateTask(id, body, UpdateTaskDeadlineAt(ds))
    /\ elapsed' = Issued(ds, resp')
    /\ UNCHANGED <<req, inflight, web>>

TimedDeleteTask(id, d) ==
    /\ DeleteTask(id, DeadlineExceeded(0, d))
    /\ elapsed' = Issued(<<d>>, resp')
    /\ UNCHANGED <<req, inflight, web>>

NextTimed ==
    \/ \E c \in {"", "true"}, d \in Durations : TimedGetAllTasks(c, d)
    \/ \E id \in TimedIDs, d \in Durations : TimedGetTaskByID(id, d)
    \/ \E d \in Durations : TimedCreateTask("A", "", d)
    \/ \E id \in TimedIDs, b \in TimedBodies,
          ds \in [1..3 -> Durations] : TimedUpdateTask(id, b, ds)
    \/ \E id \in TimedIDs, d \in Durations : TimedDeleteTask(id, d)

SpecTimed == Init /\ [][NextTimed]_vars

\* C19  Independent timeout scopes in UpdateTask: when each store call of an
\* UpdateTask needs no more than the timeout to answer, no call of it times
\* out: the invocation does not return 500, and when it returns a task after
\* its three calls that task is the stored one.
C19_IndependentTimeoutScopes ==
    (/\ resp.op = "update"
     /\ \A i \in 1..Len(elapsed) : elapsed[i] <= Timeout) =>
        /\ resp.err # Error500InternalServerError
        /\ (resp.err = "nil" /\ resp.calls = 3) =>
              \E i \in Positions(store, resp.ID) :
                  resp.task = Decode(store[i])

\* C20  Bounded wait: every invocation has returned a result or an error, and
\* when a store call it issued did not answer within the timeout the
\* invocation returned 500.
C20_BoundedWait ==
    /\ resp.err \in {"nil", Error400BadRequest, Error404NotFound,
                     Error500InternalServerError}
    /\ (\E i \in 1..Len(elapsed) : elapsed[i] > Timeout) =>
          resp.err = Error500InternalServerError

\* the outcome the step order gives UpdateTask of id with body on collection
\* st when every store call completes: an error, or "apply"
Ordered(st, id, body) ==
    IF ~WellFormedID(id) THEN Error400BadRequest
    ELSE IF Positions(st, id) = {} THEN Error404NotFound
    ELSE IF body = EmptyBody THEN Error400BadRequest
    ELSE "apply"

\* C21  UpdateTask decides in step order: on every collection, for every id and
\* body, a malformed id gives 400 with no store call; otherwise a miss at the
\* existence fetch gives 404; otherwise an empty update set gives 400, after
\* that one read and with nothing written; otherwise the patch is applied.  So
\* an empty update of a well-formed id no task has returns 404, not 400.
C21_UpdateStepOrder ==
    /\ \A id \in ExternalIDs, b \in Bodies :
          \E f \in {UpdateTaskFind(store, id, b, FALSE)} :
              /\ f.done <=> Ordered(store, id, b) # "apply"
              /\ f.done => f.resp.err = Ordered(store, id, b)
              /\ f.resp.calls = IF WellFormedID(id) THEN 1 ELSE 0
    /\ (resp.op = "update" /\ resp.err # Error500InternalServerError) =>
          /\ Ordered(before, resp.ID, resp.Body) # "apply" =>
                /\ resp.err = Ordered(before, resp.ID, resp.Body)
                /\ store = before
                /\ resp.calls = IF WellFormedID(resp.ID) THEN 1 ELSE 0
          /\ Ordered(before, resp.ID, resp.Body) = "apply" =>
                /\ resp.err = "nil"
                /\ resp.calls = 3

\* C21 witness: an empty update of a well-formed id no task has was answered
\* 404 after one store call, while the collection holds another task.
C21_Witness ==
    /\ resp.op = "update"
    /\ resp.Body = EmptyBody
    /\ WellFormedID(resp.ID)
    /\ Positions(before, resp.ID) = {}
    /\ Len(before) = 1
    /\ resp.err = Error404NotFound
    /\ resp.calls = 1

Methods == {"GET", "POST", "OPTIONS"}

\* os.Getenv("API_KEY"): unset, or the configured key
Envs == {"", APIKey}

StatusOK == "200 OK"

\* the answer of the huma router a request reaches
Routed == "routed"

\* (mutant) the check for a missing key is gone
AuthDecisionNoMissing(validAPIKey, requestAPIKey) ==
    IF requestAPIKey # validAPIKey THEN StatusForbidden
    ELSE "next"

\* middleware.Auth with API_KEY read at the request: 401 without a key, 403
\* with another key than validAPIKey, otherwise next
AuthDecision(validAPIKey, requestAPIKey) ==
    IF requestAPIKey = "" THEN StatusUnauthorized
    ELSE IF requestAPIKey # validAPIKey THEN StatusForbidden
    ELSE "next"

\* (mutant) the preflight request is passed on
CORSNoPreflight(method) == "next"

\* middleware.CORS after it has set its headers: a preflight is answered 200
CORS(method) == IF method = "OPTIONS" THEN StatusOK ELSE "next"

\* the headers CORS sets on every response
CORSHeaders == {"Access-Control-Allow-Origin", "Access-Control-Allow-Methods",
                "Access-Control-Allow-Headers"}

\* the headers SecurityHeaders sets on every response
SecurityHeaderNames ==
    {"X-Content-Type-Options", "X-Frame-Options", "X-XSS-Protection",
     "Content-Security-Policy", "Referrer-Policy",
     "Strict-Transport-Security", "Permissions-Policy", "Cache-Control",
     "Server"}

\* the headers http.Error sets on the response it writes
ErrorHeaders == {"Content-Type", "X-Content-Type-Options"}

\* the headers middleware m sets before it decides
Sets(m) ==
    IF m = "CORS" THEN CORSHeaders
    ELSE IF m = "SecurityHeaders" THEN SecurityHeaderNames
    ELSE {}

\* what middleware m does with request r: a status it answers, or "next"
Decide(m, r) ==
    IF m = "Auth" THEN AuthDecision(r.env, r.key)
    ELSE IF m = "RateLimit" THEN RateLimit(r.limited)
    ELSE IF m = "CORS" THEN CORS(r.method)
    ELSE "next"

\* the headers middleware m sets when it answers with status d
Answers(m, d) == IF m \in {"Auth", "RateLimit"} THEN ErrorHeaders ELSE {}

\* request r through the chain mws, outermost first; x is the exchange so
\* far: the headers set, the middleware that saw the request (saw) and those
\* that called next (passed), the times the router was invoked (handled)
RECURSIVE Pass(_, _, _)
Pass(mws, r, x) ==
    IF mws = <<>>
    THEN [x EXCEPT !.status = Routed, !.handled = @ + 1]
    ELSE LET m == Head(mws)
             d == Decide(m, r)
             y == [x EXCEPT !.headers = @ \cup Sets(m),
                            !.saw = Append(@, m)]
         IN  IF d # "next"
             THEN [y EXCEPT !.status = d,
                            !.headers = @ \cup Answers(m, d)]
             ELSE Pass(Tail(mws), r, [y EXCEPT !.passed = Append(@, m)])

\* a request to an entry point
HTTPRequest(entry, method, key, env, limited) ==
    [NoExchange EXCEPT !.entry = entry, !.method = method, !.key = key,
                       !.env = env, !.limited = limited]

\* number of requests a process answers before the model stops counting
MaxHandled == 2

\* the tracer provider after the entry point's start-up code has run: the
\* standalone server keeps it up for main's lifetime; cmd/api installs none;
\* the Lambda init defers the cleanup, which runs when init returns
TracerAfterStart(entry) ==
    IF entry = "server" THEN "up"
    ELSE IF entry = "api" THEN "none"
    ELSE "shutdown"

\* an entry point starts: its start-up code runs to the point where requests
\* are served
Start(entry) ==
    /\ proc.pc = "down"
    /\ proc' = [NoProc EXCEPT !.entry = entry, !.pc = "serving",
                              !.tracer = TracerAfterStart(entry)]
    /\ UNCHANGED <<store, resp, before, req, elapsed, inflight,
                   exchange, limiter, now, conns, hist>>

\* the process answers one request through its middleware chain
Exchange(method, key, env, limited) ==
    /\ proc.pc = "serving"
    /\ proc.handled < MaxHandled
    /\ exchange' = Pass(Middleware(proc.entry),
                        HTTPRequest(proc.entry, method, key, env, limited),
                        HTTPRequest(proc.entry, method, key, env, limited))
    /\ proc' = [proc EXCEPT !.handled = @ + 1,
                            !.untraced = IF proc.tracer = "shutdown"
                                         THEN @ + 1 ELSE @]
    /\ UNCHANGED <<store, resp, before, req, elapsed, inflight,
                   limiter, now, conns, hist>>

\* the process ends: ListenAndServe returns into log.Fatal, or the Lambda
\* runtime ends the process; no deferred call of main runs
Stop ==
    /\ proc.pc = "serving"
    /\ proc' = [proc EXCEPT !.pc = "stopped"]
    /\ UNCHANGED <<store, resp, before, req, elapsed, inflight,
                   exchange, limiter, now, conns, hist>>

NextProcess ==
    \/ \E entry \in EntryPoints : Start(entry)
    \/ \E method \in Methods, key \in Keys, env \in Envs,
          limited \in BOOLEAN :
          Exchange(method, key, env, limited)
    \/ Stop

SpecProcess == Init /\ [][NextProcess]_vars


\* the number of times middleware m occurs in the sequence ms
Occurs(ms, m) == Cardinality({i \in DOMAIN ms : ms[i] = m})

\* C22  API-key gate decision: Auth invokes the next handler exactly once when
\* and only when the X-API-Key header is not empty and equals API_KEY; without
\* the header it answers 401 and with another value 403, next not invoked;
\* while API_KEY is unset no request passes.
C22_AuthDecision ==
    /\ \A env \in Envs, key \in Keys :
          /\ AuthDecision(env, key) = "next" <=> (key # "" /\ key = env)
          /\ key = "" => AuthDecision(env, key) = StatusUnauthorized
          /\ (key # "" /\ key # env) =>
                AuthDecision(env, key) = StatusForbidden
          /\ env = "" => AuthDecision(env, key) # "next"
    /\ Occurs(exchange.saw, "Auth") > 0 =>
          /\ Occurs(exchange.saw, "Auth") = 1
          /\ Occurs(exchange.passed, "Auth") =
                IF exchange.key # "" /\ exchange.key = exchange.env
                THEN 1 ELSE 0
          /\ exchange.key = "" =>
                exchange.status = StatusUnauthorized /\ exchange.handled = 0
          /\ (exchange.key # "" /\ exchange.key # exchange.env) =>
                exchange.status = StatusForbidden /\ exchange.handled = 0
          /\ exchange.env = "" => exchange.handled = 0
          /\ Occurs(exchange.passed, "Auth") = 1 =>
                exchange.status = Routed /\ exchange.handled = 1

\* C22 witness: with API_KEY unset, a request without the header reached Auth
\* in the standalone server and was answered 401, the router not invoked.
C22_Witness ==
    /\ exchange.entry = "server"
    /\ exchange.env = ""
    /\ exchange.key = ""
    /\ Occurs(exchange.saw, "Auth") = 1
    /\ exchange.status = StatusUnauthorized
    /\ exchange.handled = 0

\* the middleware of chain mws up to and including m
UpTo(mws, m) ==
    SubSeq(mws, 1, CHOOSE i \in DOMAIN mws : mws[i] = m)

\* C23  CORS preflight short-circuit: every response that passed through CORS
\* carries the three Access-Control headers; an OPTIONS request is answered
\* 200 by CORS without next being invoked, so no middleware registered after
\* CORS (Auth in the standalone server) and no router sees it; any other
\* method makes CORS invoke next exactly once.
C23_CORSPreflight ==
    Occurs(exchange.saw, "CORS") > 0 =>
        /\ Occurs(exchange.saw, "CORS") = 1
        /\ CORSHeaders \subseteq exchange.headers
        /\ exchange.method = "OPTIONS" =>
              /\ exchange.status = StatusOK
              /\ Occurs(exchange.passed, "CORS") = 0
              /\ exchange.handled = 0
              /\ exchange.saw = UpTo(Middleware(exchange.entry), "CORS")
        /\ exchange.method # "OPTIONS" =>
              Occurs(exchange.passed, "CORS") = 1

\* C23 witness: an OPTIONS request without an API key to the standalone server
\* was answered 200 with the Access-Control headers, and Auth did not see it.
C23_Witness ==
    /\ exchange.entry = "server"
    /\ exchange.method = "OPTIONS"
    /\ exchange.key = ""
    /\ exchange.status = StatusOK
    /\ CORSHeaders \subseteq exchange.headers
    /\ Occurs(exchange.saw, "Auth") = 0
    /\ exchange.handled = 0

\* C26  Security headers on all responses: every response of the Lambda chain
\* carries the security headers, the 429 of RateLimit included.
C26_SecurityHeadersAlways ==
    (exchange.entry = "lambda" /\ exchange.status # "none") =>
        SecurityHeaderNames \subseteq exchange.headers

\* C27  Tracing cleanup at shutdown only: the cleanup function tracing.Init
\* returned has been invoked only in a process that has stopped, and no
\* request was answered after it.
C27_TracingCleanupAtShutdown ==
    /\ proc.tracer = "shutdown" => proc.pc = "stopped"
    /\ proc.untraced = 0


(***************************************************************************)
(* The rate limiter                                                        *)
(***************************************************************************)
\* the position of the last ":" of addr, 0 when it has none
LastColon(addr) ==
    IF \E i \in DOMAIN addr : addr[i] = ":"
    THEN CHOOSE i \in DOMAIN addr :
             /\ addr[i] = ":"
             /\ \A j \in DOMAIN addr : j > i => addr[j] # ":"
    ELSE 0

\* the key of a request: X-Forwarded-For, else X-Real-IP, else RemoteAddr
\* without its port
getIP(r) ==
    IF r.forwardedFor # NoHeader THEN r.forwardedFor
    ELSE IF r.realIP # NoHeader THEN r.realIP
    ELSE IF LastColon(r.remoteAddr) = 0 THEN r.remoteAddr
    ELSE SubSeq(r.remoteAddr, 1, LastColon(r.remoteAddr) - 1)

\* (mutant) every key is given the first limiter ever created
getVisitorShared(l, ip, t) ==
    IF l.heap = <<>>
    THEN [rl |-> [l EXCEPT !.heap = Append(@, Burst),
                           !.visitors[ip] = [limiter |-> 1, lastSeen |-> t]],
          limiter |-> 1]
    ELSE [rl |-> [l EXCEPT !.visitors[ip] = [limiter |-> 1, lastSeen |-> t]],
          limiter |-> 1]

\* getVisitor under the mutex, at time t: a key without an entry gets a new
\* limiter holding the full burst; a key with one has its lastSeen set.
\* The result is the table after the call and the limiter returned
getVisitor(l, ip, t) ==
    IF l.visitors[ip] = NoVisitor
    THEN [rl |-> [l EXCEPT !.heap = Append(@, Burst),
                           !.visitors[ip] = [limiter |-> Len(l.heap) + 1,
                                             lastSeen |-> t]],
          limiter |-> Len(l.heap) + 1]
    ELSE [rl |-> [l EXCEPT !.visitors[ip].lastSeen = t],
          limiter |-> l.visitors[ip].limiter]

\* limiter.Allow() on limiter p: a token is taken when there is one
Allow(l, p) ==
    IF l.heap[p] >= 1
    THEN [ok |-> TRUE, rl |-> [l EXCEPT !.heap[p] = @ - 1]]
    ELSE [ok |-> FALSE, rl |-> l]

\* d token intervals pass: every limiter gains d tokens, up to its burst
Refill(l, d) ==
    [l EXCEPT !.heap = [p \in DOMAIN l.heap |->
                            IF l.heap[p] + d > Burst THEN Burst
                            ELSE l.heap[p] + d]]

\* the age after which the cleanup removes an entry
StaleAfter == 3 * Minute

\* (mutant) entries are removed once they are a minute old
StaleSooner(v, t) == t - v.lastSeen > Minute

\* time.Since(v.lastSeen) > 3*time.Minute at time t
Stale(v, t) == t - v.lastSeen > StaleAfter

\* the keys one sweep of cleanupVisitors at time t removes
Swept(l, t) ==
    {ip \in IPs : l.visitors[ip] # NoVisitor /\ Stale(l.visitors[ip], t)}

\* the requests a client sends from its connection address
RateRequests ==
    {[NoExchange EXCEPT !.entry = "lambda", !.method = "GET",
                        !.forwardedFor = f, !.realIP = x, !.remoteAddr = a] :
        f \in ForwardedFors, x \in RealIPs, a \in RemoteAddrs}

\* number of token intervals the clock advances in the sequential runs
MaxTicks == 1

\* RateLimit on request r in the Lambda chain, the requests coming one after
\* the other: key, visitor, Allow, then 429 or the rest of the chain
Limit(r) ==
    \E g \in {getVisitor(limiter, getIP(r), now)} :
    \E a \in {Allow(g.rl, g.limiter)} :
        /\ limiter' = a.rl
        /\ exchange' = Pass(LambdaMiddleware, [r EXCEPT !.limited = ~a.ok],
                            [r EXCEPT !.limited = ~a.ok])
        /\ hist' = IF a.ok
                   THEN [hist EXCEPT !.had = g.rl.heap[g.limiter],
                                     !.byKey[getIP(r)] = @ + 1,
                                     !.byAddr[r.remoteAddr] = @ + 1]
                   ELSE [hist EXCEPT !.had = g.rl.heap[g.limiter]]
        /\ UNCHANGED <<store, resp, before, req, elapsed, inflight,
                       proc, now, conns>>

\* d token intervals pass, the clock not going beyond until
Wait(d, until) ==
    /\ now + d <= until
    /\ now' = now + d
    /\ limiter' = Refill(limiter, d)
    /\ hist' = [hist EXCEPT !.byKey = NoHist.byKey, !.byAddr = NoHist.byAddr]
    /\ UNCHANGED <<store, resp, before, req, elapsed, inflight,
                   proc, exchange, conns>>

NextRateLimit ==
    \/ \E r \in RateRequests : Limit(r)
    \/ Wait(1, MaxTicks)

SpecRateLimit == Init /\ [][NextRateLimit]_vars


\* the tokens the limiter of key ip holds, the full burst when it has no entry
Tokens(l, ip) ==
    IF l.visitors[ip] = NoVisitor THEN Burst
    ELSE l.heap[l.visitors[ip].limiter]

\* C24  Rate-limit admission: a request its key's limiter denies is answered
\* 429 and next is not invoked, an admitted one invokes next exactly once;
\* budgets are per key: no key gets more than the burst of 20 admissions
\* without time passing, a request is denied only when its own key has no
\* token left, and serving it leaves every other key's budget as it was.
C24_RateLimitAdmission ==
    /\ \A ip \in IPs : hist.byKey[ip] <= Burst
    /\ exchange.remoteAddr # NoHeader =>
          /\ Occurs(exchange.saw, "RateLimit") = 1
          /\ limiter.visitors[getIP(exchange)] # NoVisitor
          /\ exchange.limited =>
                /\ exchange.status = StatusTooManyRequests
                /\ Occurs(exchange.passed, "RateLimit") = 0
                /\ exchange.handled = 0
                /\ hist.had = 0
          /\ ~exchange.limited =>
                /\ Occurs(exchange.passed, "RateLimit") = 1
                /\ exchange.handled = 1
                /\ hist.had >= 1
    /\ \A r \in RateRequests :
          \E g \in {getVisitor(limiter, getIP(r), now)} :
          \E a \in {Allow(g.rl, g.limiter)} :
              /\ a.ok <=> Tokens(limiter, getIP(r)) >= 1
              /\ \A ip \in IPs \ {getIP(r)} :
                    /\ a.rl.visitors[ip] = limiter.visitors[ip]
                    /\ Tokens(a.rl, ip) = Tokens(limiter, ip)

\* C24 witness: the key of the connection address has used its 20 admissions
\* and its next request was answered 429, while the other key, admitted
\* before, still has tokens.
C24_Witness ==
    /\ getIP(exchange) = <<"1">>
    /\ exchange.status = StatusTooManyRequests
    /\ hist.byKey[<<"1">>] = Burst
    /\ hist.byKey[<<"6">>] >= 1
    /\ Tokens(limiter, <<"6">>) >= 1

\* C25  Rate limit per client address: the requests admitted from one
\* connection address without time passing never number more than the burst
\* of 20, whatever X-Forwarded-For and X-Real-IP values the client sends.
C25_LimitPerClientAddress ==
    \A a \in RemoteAddrs : hist.byAddr[a] <= Burst


(***************************************************************************)
(* The visitors table under concurrent requests and the cleanup loop       *)
(***************************************************************************)
\* number of minutes the clock advances in the concurrent runs
MaxMinutes == 4

\* request r in slot c enters RateLimit: getIP, then getVisitor, which holds
\* the mutex from its lookup to its return
Enter(c, r) ==
    /\ conns[c].pc = "idle"
    /\ \E g \in {getVisitor(limiter, getIP(r), now)} :
          /\ limiter' = g.rl
          /\ conns' = [conns EXCEPT ![c] =
                [pc |-> "got", ip |-> getIP(r), limiter |-> g.limiter,
                 status |-> "none", epoch |-> hist.removals[getIP(r)]]]
    /\ UNCHANGED <<store, resp, before, req, elapsed, inflight,
                   proc, exchange, now, hist>>

\* the request in slot c asks the limiter it was given and is answered
Answer(c) ==
    /\ conns[c].pc = "got"
    /\ \E a \in {Allow(limiter, conns[c].limiter)} :
          /\ limiter' = a.rl
          /\ conns' = [conns EXCEPT
                ![c].pc = "done",
                ![c].status = IF a.ok THEN Routed
                              ELSE StatusTooManyRequests]
    /\ UNCHANGED <<store, resp, before, req, elapsed, inflight,
                   proc, exchange, now, hist>>

\* one round of cleanupVisitors once its sleep has ended: under the mutex the
\* stale entries are deleted; then the loop sleeps for a minute again
cleanupVisitors ==
    /\ now >= limiter.sleepUntil
    /\ limiter' = [limiter EXCEPT
          !.visitors = [ip \in IPs |-> IF ip \in Swept(limiter, now)
                                       THEN NoVisitor
                                       ELSE limiter.visitors[ip]],
          !.sleepUntil = now + Minute]
    /\ hist' = [hist EXCEPT
          !.removals = [ip \in IPs |-> IF ip \in Swept(limiter, now)
                                       THEN hist.removals[ip] + 1
                                       ELSE hist.removals[ip]],
          !.swept = @ \cup {[ip |-> ip,
                             age |-> now - limiter.visitors[ip].lastSeen] :
                            ip \in Swept(limiter, now)}]
    /\ UNCHANGED <<store, resp, before, req, elapsed, inflight,
                   proc, exchange, now, conns>>

NextVisitors ==
    \/ \E c \in Conns, r \in RateRequests : Enter(c, r)
    \/ \E c \in Conns : Answer(c)
    \/ cleanupVisitors
    \/ Wait(Minute, MaxMinutes * Minute)

SpecVisitors == Init /\ [][NextVisitors]_vars

\* C30  Visitors table under concurrency: in every interleaving of requests
\* and the cleanup loop, the requests under one key between which that key was
\* not removed were all given the same limiter, which is the one the table
\* holds for the key (two simultaneous first requests do not create two), and
\* the cleanup has removed only entries last seen more than 3 minutes before.
C30_VisitorsTable ==
    /\ \A c1, c2 \in Conns :
          (/\ conns[c1].pc # "idle"
           /\ conns[c2].pc # "idle"
           /\ conns[c1].ip = conns[c2].ip
           /\ conns[c1].epoch = conns[c2].epoch) =>
              conns[c1].limiter = conns[c2].limiter
    /\ \A c \in Conns :
          (conns[c].pc # "idle" /\ conns[c].epoch = hist.removals[conns[c].ip])
              => limiter.visitors[conns[c].ip].limiter = conns[c].limiter
    /\ \A e \in hist.swept : e.age > StaleAfter

\* C30 witness: after the cleanup removed the entry of a key, two requests
\* under that key are inside RateLimit at once, neither answered yet; both
\* hold the one limiter created since, which still has its full burst.
C30_Witness ==
    \E c1, c2 \in Conns :
        /\ c1 # c2
        /\ conns[c1].pc = "got"
        /\ conns[c2].pc = "got"
        /\ conns[c1].ip = conns[c2].ip
        /\ conns[c1].epoch = 1
        /\ conns[c2].epoch = 1
        /\ conns[c1].limiter = conns[c2].limiter
        /\ limiter.heap[conns[c1].limiter] = Burst
        /\ \E e \in hist.swept : e.ip = conns[c1].ip
=============================================================================
